---- MODULE Spec2Model ----
(***************************************************************************)
(* Model of site_scons/site_tools/roc/helpers.py: the compiler probes      *)
(* CompilerVersion and CompilerTarget, the configure test                  *)
(* CheckLibWithHeaderExpr and the ThirdParty fetcher.                      *)
(*                                                                         *)
(* Text is a sequence of one-character strings, so that the regular        *)
(* expressions, split, join, strip and int() are computed character by     *)
(* character as Python computes them.                                      *)
(***************************************************************************)
EXTENDS Integers, Sequences, FiniteSets

VARIABLES
    fn,          \* the helper being called
    pc,          \* position inside the call
    result,      \* value returned to the caller
    raised,      \* TRUE when an exception escaped to the caller
    spawned,     \* subprocesses started by the current call
    output,      \* CompilerTarget: proc.stdout.readlines()
    full_text,   \* CompilerVersion: joined output of --version
    dump_text,   \* CompilerVersion: joined output of -dumpversion
    LIBS,        \* env['LIBS'], the shared link-library list
    CPPPATH,     \* env['CPPPATH']
    call,        \* arguments and locals of the current CheckLib... / ThirdParty call
    run,         \* what RunProg / Execute returned in the current call
    ac_build_counter, \* SCons.SConf._ac_build_counter
    files,       \* marker files that exist under 3rdparty/
    exit_status, \* status the configuration process exited with, -1 while it runs
    calls,       \* calls made so far
    unique       \* every CheckLib... call so far had a duplicate-free library list

compilerVars == <<output, full_text, dump_text>>

envVars == <<LIBS, CPPPATH, call, run, ac_build_counter, files, exit_status,
             calls, unique>>

vars == <<fn, pc, result, raised, spawned, compilerVars, envVars>>

\* ------------------------------------------------------------------ bounds

\* most dash-separated components of a generated target triple
MaxParts == 5

\* most fragments in a generated --version output
MaxFrags == 4

\* most names in the library list of a probe
MaxLibs == 2

\* most characters a probe program prints
MaxOut == 2

\* most probes in a configuration run
MaxProbes == 2

\* most ThirdParty calls in a configuration run
MaxFetches == 2

\* ------------------------------------------------------------ text helpers

Digits == {"0", "1", "2", "3", "4", "5", "6", "7", "8", "9"}

Letters ==
    {"a", "b", "c", "d", "e", "f", "g", "h", "i", "j", "k", "l", "m",
     "n", "o", "p", "q", "r", "s", "t", "u", "v", "w", "x", "y", "z",
     "A", "B", "C", "D", "E", "F", "G", "H", "I", "J", "K", "L", "M",
     "N", "O", "P", "Q", "R", "S", "T", "U", "V", "W", "X", "Y", "Z"}

\* \s of the re module
IsSpace(c) == c \in {" ", "\n", "\t", "\r"}

\* \w of the re module
IsWord(c) == c \in Digits \cup Letters \cup {"_"}

\* the value a function returns for "nothing" (None), and for a found value
None == [found |-> FALSE, val |-> <<>>]

Some(v) == [found |-> TRUE, val |-> v]

\* s[i:] of Python, with i counted from 1
From(s, i) == SubSeq(s, i, Len(s))

\* s.startswith(p) at offset i (1-based)
StartsAt(s, i, p) ==
    /\ i + Len(p) - 1 <= Len(s)
    /\ SubSeq(s, i, i + Len(p) - 1) = p

\* length of the longest run of characters of class C starting at s[i]
RECURSIVE RunLen(_, _, _)
RunLen(s, i, C) ==
    IF i <= Len(s) /\ s[i] \in C THEN 1 + RunLen(s, i + 1, C) ELSE 0

\* length of the run of whitespace starting at s[i]
RECURSIVE SpaceLen(_, _)
SpaceLen(s, i) ==
    IF i <= Len(s) /\ IsSpace(s[i]) THEN 1 + SpaceLen(s, i + 1) ELSE 0

\* length of the run of non-whitespace starting at s[i]
RECURSIVE NonSpaceLen(_, _)
NonSpaceLen(s, i) ==
    IF i <= Len(s) /\ ~IsSpace(s[i]) THEN 1 + NonSpaceLen(s, i + 1) ELSE 0

\* str.split(sep) for a one-character separator
RECURSIVE Split(_, _)
Split(s, sep) ==
    IF \A i \in 1..Len(s) : s[i] # sep
    THEN <<s>>
    ELSE LET k == CHOOSE i \in 1..Len(s) :
                      s[i] = sep /\ \A j \in 1..(i - 1) : s[j] # sep
         IN <<SubSeq(s, 1, k - 1)>> \o Split(From(s, k + 1), sep)

\* sep.join(parts)
RECURSIVE Join(_, _)
Join(parts, sep) ==
    IF Len(parts) = 0 THEN <<>>
    ELSE IF Len(parts) = 1 THEN parts[1]
    ELSE parts[1] \o sep \o Join(Tail(parts), sep)

\* the environment variables of the build, untouched by the compiler probes
EnvUnused ==
    /\ LIBS = <<>>
    /\ CPPPATH = <<>>
    /\ call = <<>>
    /\ run = <<>>
    /\ ac_build_counter = 0
    /\ files = {}
    /\ exit_status = -1
    /\ calls = 0
    /\ unique = TRUE

\* --------------------------------------------------------- CompilerTarget

TargetPrefix == <<"T", "a", "r", "g", "e", "t", ":">>

unknown == <<"u", "n", "k", "n", "o", "w", "n">>

pcVendor == <<"p", "c">>

\* re.match(r'^Target:\s*(\S+)', line): group(1), or None
TargetMatch(line) ==
    IF ~StartsAt(line, 1, TargetPrefix) THEN None
    ELSE LET i == Len(TargetPrefix) + 1 + SpaceLen(line, Len(TargetPrefix) + 1)
             n == NonSpaceLen(line, i)
         IN IF n = 0 THEN None ELSE Some(SubSeq(line, i, i + n - 1))

\* a plausible slip: the vendor test inverted
NormalizePartsInverted(parts) ==
    IF Len(parts) = 3
    THEN <<parts[1]>> \o <<pcVendor>> \o Tail(parts)
    ELSE IF Len(parts) = 4 /\ parts[2] # unknown
    THEN [parts EXCEPT ![2] = pcVendor]
    ELSE parts

\* a plausible slip: 'pc' appended after the second component instead of before
NormalizePartsShifted(parts) ==
    IF Len(parts) = 3
    THEN <<parts[1], parts[2]>> \o <<pcVendor>> \o <<parts[3]>>
    ELSE IF Len(parts) = 4 /\ parts[2] = unknown
    THEN [parts EXCEPT ![2] = pcVendor]
    ELSE parts

\* the rewrite of the split triple
NormalizeParts(parts) ==
    IF Len(parts) = 3
    THEN <<parts[1]>> \o <<pcVendor>> \o Tail(parts)
    ELSE IF Len(parts) = 4 /\ parts[2] = unknown
    THEN [parts EXCEPT ![2] = pcVendor]
    ELSE parts

\* split on '-', rewrite, join on '-'
NormalizeTriple(t) == Join(NormalizeParts(Split(t, "-")), <<"-">>)

\* the loop over the output lines: the first matching line returns
RECURSIVE ScanLines(_)
ScanLines(lines) ==
    IF Len(lines) = 0 THEN None
    ELSE LET m == TargetMatch(lines[1])
         IN IF m.found THEN Some(NormalizeTriple(m.val))
            ELSE ScanLines(Tail(lines))

\* components a compiler may print in its triple
Components == {<<"x">>, unknown, pcVendor, <<>>}

\* the triples: 1..MaxParts components joined with '-'
RECURSIVE PartLists(_)
PartLists(n) ==
    IF n = 0 THEN {<<>>}
    ELSE {<<c>> \o p : c \in Components, p \in PartLists(n - 1)}

Triples ==
    {Join(p, <<"-">>) : p \in UNION {PartLists(n) : n \in 1..MaxParts}} \ {<<>>}

\* 'Target:' lines as compilers print them, with and without the blank
TargetLine(t, sp) == TargetPrefix \o sp \o t \o <<"\n">>

\* lines that precede the Target line in the output of 'cc -v -E -'
Preambles ==
    {<<>>,
     <<<<"T", "h", "r", "e", "a", "d", ":", " ", "x", "-", "x", "-", "x", "\n">>>>,
     <<<<" ">> \o TargetLine(<<"x", "-", "x", "-", "x">>, <<" ">>)>>,
     <<TargetPrefix \o <<" ", "\n">>>>}

\* lines that follow it
Postambles == {<<>>, <<TargetLine(<<"x", "-", "x", "-", "x">>, <<" ">>)>>}

TargetOutputs ==
    Preambles \cup
    {pre \o <<TargetLine(t, sp)>> \o post :
        pre \in Preambles, t \in Triples, sp \in {<<>>, <<" ">>},
        post \in Postambles}

InitTarget ==
    /\ fn = "CompilerTarget"
    /\ pc = "start"
    /\ result = None
    /\ raised = FALSE
    /\ spawned = 0
    /\ output = <<>>
    /\ full_text = <<>>
    /\ dump_text = <<>>
    /\ EnvUnused

\* what the 'except:' around Popen leaves: None is returned, nothing escapes
TargetPopenFailedEscapes == [result |-> None, raised |-> TRUE, pc |-> "done"]

TargetPopenFailed == [result |-> None, raised |-> FALSE, pc |-> "done"]

\* subprocess.Popen([compiler, '-v', '-E', '-']) raised: return None
TargetSpawnFails ==
    /\ fn = "CompilerTarget" /\ pc = "start"
    /\ pc' = TargetPopenFailed.pc
    /\ result' = TargetPopenFailed.result
    /\ raised' = TargetPopenFailed.raised
    /\ UNCHANGED <<fn, spawned, output, full_text, dump_text, envVars>>

\* Popen succeeded: the process runs and its output is read to the end
TargetSpawn ==
    /\ fn = "CompilerTarget" /\ pc = "start"
    /\ \E o \in TargetOutputs : output' = o
    /\ spawned' = spawned + 1
    /\ pc' = "scan"
    /\ UNCHANGED <<fn, result, raised, full_text, dump_text, envVars>>

\* for line in proc.stdout.readlines(): ... return
TargetScan ==
    /\ fn = "CompilerTarget" /\ pc = "scan"
    /\ result' = ScanLines(output)
    /\ pc' = "done"
    /\ UNCHANGED <<fn, raised, spawned, output, full_text, dump_text, envVars>>

NextTarget == TargetSpawnFails \/ TargetSpawn \/ TargetScan

SpecTarget == InitTarget /\ [][NextTarget]_vars

\* -------------------------------------------------------- CompilerVersion

\* characters of str(n) read as a number: int(s)
DigitVal(c) ==
    CASE c = "0" -> 0 [] c = "1" -> 1 [] c = "2" -> 2 [] c = "3" -> 3
      [] c = "4" -> 4 [] c = "5" -> 5 [] c = "6" -> 6 [] c = "7" -> 7
      [] c = "8" -> 8 [] c = "9" -> 9

RECURSIVE ParseInt(_)
ParseInt(s) ==
    IF Len(s) = 0 THEN 0
    ELSE 10 * ParseInt(SubSeq(s, 1, Len(s) - 1)) + DigitVal(s[Len(s)])

\* tuple(map(int, ver.split('.')))
VersionTuple(ver) ==
    LET parts == Split(ver, ".") IN [i \in 1..Len(parts) |-> ParseInt(parts[i])]

\* \b between s[i-1] and s[i]
Boundary(s, i) ==
    LET before == i > 1 /\ IsWord(s[i - 1])
        after == i <= Len(s) /\ IsWord(s[i])
    IN before # after

\* length matched at s[i] by n dot-separated digit runs, [0-9]+(\.[0-9]+)*, or 0
RECURSIVE DottedLen(_, _, _)
DottedLen(s, i, n) ==
    LET d == RunLen(s, i, Digits) IN
    IF d = 0 THEN 0
    ELSE IF n = 1 THEN d
    ELSE IF i + d <= Len(s) /\ s[i + d] = "."
    THEN LET rest == DottedLen(s, i + d + 1, n - 1)
         IN IF rest = 0 THEN 0 ELSE d + 1 + rest
    ELSE 0

\* length matched at s[i] by (\b[0-9]+\.[0-9]+\.[0-9]+\b) for n = 3 and by
\* (\b[0-9]+\.[0-9]+\b) for n = 2, or 0. Every digit run is the longest one:
\* a shorter one is followed by a digit, which is neither '.' nor a boundary.
ShapeAt(s, i, n) ==
    LET len == DottedLen(s, i, n) IN
    IF len > 0 /\ Boundary(s, i) /\ Boundary(s, i + len) THEN len ELSE 0

\* a plausible slip: the dotted pair tried before the dotted triple
version_formats_pair_first == <<2, 3>>

\* version_formats, as the number of dotted components of each pattern
version_formats == <<3, 2>>

\* re.search(regex, text): group(1) of the leftmost match, or None
RECURSIVE SearchFrom(_, _, _)
SearchFrom(s, i, n) ==
    IF i > Len(s) THEN None
    ELSE LET len == ShapeAt(s, i, n)
         IN IF len > 0 THEN Some(SubSeq(s, i, i + len - 1))
            ELSE SearchFrom(s, i + 1, n)

Search(s, n) == SearchFrom(s, 1, n)

kwLLVM == <<"L", "L", "V", "M">>

kwClang == <<"c", "l", "a", "n", "g">>

kwVersion == <<"v", "e", "r", "s", "i", "o", "n">>

\* position just after (?:LLVM|clang)\s+version\s+ matched at s[i], or 0
MarkerEnd(s, i) ==
    LET w == IF StartsAt(s, i, kwLLVM) THEN Len(kwLLVM)
             ELSE IF StartsAt(s, i, kwClang) THEN Len(kwClang) ELSE 0
        a == i + w
        sp1 == SpaceLen(s, a)
        b == a + sp1
        sp2 == SpaceLen(s, b + Len(kwVersion))
    IN IF w > 0 /\ sp1 > 0 /\ StartsAt(s, b, kwVersion) /\ sp2 > 0
       THEN b + Len(kwVersion) + sp2 ELSE 0

\* re.search(r'(?:LLVM|clang)\s+version\s+' + regex, text): group(1), or None
RECURSIVE MarkerSearchFrom(_, _, _)
MarkerSearchFrom(s, i, n) ==
    IF i > Len(s) THEN None
    ELSE LET e == MarkerEnd(s, i)
             len == IF e > 0 THEN ShapeAt(s, e, n) ELSE 0
         IN IF len > 0 THEN Some(SubSeq(s, e, e + len - 1))
            ELSE MarkerSearchFrom(s, i + 1, n)

MarkerSearch(s, n) == MarkerSearchFrom(s, 1, n)

\* for regex in version_formats: the first pattern that matches returns
RECURSIVE FirstFormat(_, _, _)
FirstFormat(s, k, marker) ==
    IF k > Len(version_formats) THEN None
    ELSE LET m == IF marker THEN MarkerSearch(s, version_formats[k])
                  ELSE Search(s, version_formats[k])
         IN IF m.found THEN m ELSE FirstFormat(s, k + 1, marker)

\* a plausible slip: the LLVM/clang pass left out
MarkerVersionSkipped(s) == None

\* the first loop of getverstr: the LLVM/clang version, or None
MarkerVersion(s) == FirstFormat(s, 1, TRUE)

\* length of the run of characters other than ')' starting at s[i]: [^)]+
RECURSIVE NotCloseLen(_, _)
NotCloseLen(s, i) ==
    IF i <= Len(s) /\ s[i] # ")" THEN 1 + NotCloseLen(s, i + 1) ELSE 0

\* re.sub(r'\([^)]+\)', '', text)
RECURSIVE StripParens(_)
StripParens(s) ==
    IF Len(s) = 0 THEN <<>>
    ELSE LET n == NotCloseLen(s, 2)
         IN IF s[1] = "(" /\ n > 0 /\ n + 2 <= Len(s) /\ s[n + 2] = ")"
            THEN StripParens(From(s, n + 3))
            ELSE <<s[1]>> \o StripParens(Tail(s))

\* a plausible slip: the --version texts searched before the -dumpversion text
SearchOrderVersionFirst(dump, trunc, full) == <<trunc, full, dump>>

\* for text in [dump_text, trunc_text, full_text]
SearchOrder(dump, trunc, full) == <<dump, trunc, full>>

\* the second loop of getverstr: first text, then first pattern, that matches
RECURSIVE FirstText(_)
FirstText(texts) ==
    IF Len(texts) = 0 THEN None
    ELSE LET m == FirstFormat(texts[1], 1, FALSE)
         IN IF m.found THEN m ELSE FirstText(Tail(texts))

GenericVersion(dump, full) ==
    FirstText(SearchOrder(dump, StripParens(full), full))

\* proc.stdout.readlines(): the lines, each with its newline
RECURSIVE ReadLines(_)
ReadLines(o) ==
    IF Len(o) = 0 THEN <<>>
    ELSE IF \A i \in 1..Len(o) : o[i] # "\n" THEN <<o>>
    ELSE LET k == CHOOSE i \in 1..Len(o) :
                      o[i] = "\n" /\ \A j \in 1..(i - 1) : o[j] # "\n"
         IN <<SubSeq(o, 1, k)>> \o ReadLines(From(o, k + 1))

\* ' '.join(proc.stdout.readlines())
JoinedOutput(o) == Join(ReadLines(o), <<" ">>)

\* ver -> tuple of ints, None -> None
ToResult(m) == IF m.found THEN Some(VersionTuple(m.val)) ELSE None

\* pieces of text a compiler prints for --version
VersionFragments ==
    {<<"c", "l", "a", "n", "g", " ", "v", "e", "r", "s", "i", "o", "n", " ">>,
     <<"L", "L", "V", "M", " ", "v", "e", "r", "s", "i", "o", "n", " ">>,
     <<"1", "0", ".", "0", ".", "1">>,
     <<"4", ".", "5">>,
     <<"(">>, <<")">>, <<"\n">>, <<"x">>}

RECURSIVE FragmentTexts(_)
FragmentTexts(n) ==
    IF n = 0 THEN {<<>>}
    ELSE FragmentTexts(n - 1) \cup
         {f \o t : f \in VersionFragments, t \in FragmentTexts(n - 1)}

\* outputs of 'cc --version'
VersionOutputs == FragmentTexts(MaxFrags)

\* outputs of 'cc -dumpversion'
DumpOutputs == {<<>>, <<"7", "\n">>, <<"6", ".", "7", "\n">>}

InitVersion ==
    /\ fn = "CompilerVersion"
    /\ pc = "start"
    /\ result = None
    /\ raised = FALSE
    /\ spawned = 0
    /\ output = <<>>
    /\ full_text = <<>>
    /\ dump_text = <<>>
    /\ EnvUnused

\* what the bare 'except: pass' of getverstr leaves: None, nothing escapes
VersionPopenFailedEscapes == [result |-> None, raised |-> TRUE, pc |-> "done"]

VersionPopenFailed == [result |-> None, raised |-> FALSE, pc |-> "done"]

\* Popen([compiler, '--version']) raised
VersionSpawnFails ==
    /\ fn = "CompilerVersion" /\ pc = "start"
    /\ pc' = VersionPopenFailed.pc
    /\ result' = VersionPopenFailed.result
    /\ raised' = VersionPopenFailed.raised
    /\ UNCHANGED <<fn, spawned, output, full_text, dump_text, envVars>>

\* Popen([compiler, '--version']) and the read of all its output
VersionSpawn ==
    /\ fn = "CompilerVersion" /\ pc = "start"
    /\ \E o \in VersionOutputs : full_text' = JoinedOutput(o)
    /\ spawned' = spawned + 1
    /\ pc' = "marker"
    /\ UNCHANGED <<fn, result, raised, output, dump_text, envVars>>

\* the LLVM/clang pass: a match returns at once
VersionMarker ==
    /\ fn = "CompilerVersion" /\ pc = "marker"
    /\ LET m == MarkerVersion(full_text)
       IN IF m.found
          THEN result' = ToResult(m) /\ pc' = "done"
          ELSE result' = result /\ pc' = "dump"
    /\ UNCHANGED <<fn, raised, spawned, output, full_text, dump_text, envVars>>

\* Popen([compiler, '-dumpversion']) raised
DumpSpawnFails ==
    /\ fn = "CompilerVersion" /\ pc = "dump"
    /\ pc' = VersionPopenFailed.pc
    /\ result' = VersionPopenFailed.result
    /\ raised' = VersionPopenFailed.raised
    /\ UNCHANGED <<fn, spawned, output, full_text, dump_text, envVars>>

\* Popen([compiler, '-dumpversion']) and the read of all its output
DumpSpawn ==
    /\ fn = "CompilerVersion" /\ pc = "dump"
    /\ \E o \in DumpOutputs : dump_text' = JoinedOutput(o)
    /\ spawned' = spawned + 1
    /\ pc' = "search"
    /\ UNCHANGED <<fn, result, raised, output, full_text, envVars>>

\* the generic pass over the three texts, and the conversion to a tuple
VersionSearch ==
    /\ fn = "CompilerVersion" /\ pc = "search"
    /\ result' = ToResult(GenericVersion(dump_text, full_text))
    /\ pc' = "done"
    /\ UNCHANGED <<fn, raised, spawned, output, full_text, dump_text, envVars>>

NextVersion ==
    \/ VersionSpawnFails \/ VersionSpawn \/ VersionMarker
    \/ DumpSpawnFails \/ DumpSpawn \/ VersionSearch

SpecVersion == InitVersion /\ [][NextVersion]_vars

\* ----------------------------------------------- both compiler probes

InitCompiler == InitTarget \/ InitVersion

NextCompiler == NextTarget \/ NextVersion

SpecCompiler == InitCompiler /\ [][NextCompiler]_vars

\* -------------------------------------------------- CheckLibWithHeaderExpr

\* if not isinstance(x, list): x = [x]
AsList(x) == IF x.isList THEN x.v ELSE <<x.v>>

\* a plausible slip: libraries already linked are not filtered out
FilterLibsNone(libs, linked) == libs

\* [l for l in libs if not l in context.env['LIBS']]
FilterLibs(libs, linked) ==
    LET absent(l) == \A i \in 1..Len(linked) : linked[i] # l
    IN SelectSeq(libs, absent)

\* str.strip(): whitespace removed at both ends
RECURSIVE Strip(_)
Strip(s) ==
    IF Len(s) = 0 THEN s
    ELSE IF IsSpace(s[1]) THEN Strip(Tail(s))
    ELSE IF IsSpace(s[Len(s)]) THEN Strip(SubSeq(s, 1, Len(s) - 1))
    ELSE s

\* a plausible slip: the output compared without strip()
ProbeSucceededUnstripped(err, out) == ~err /\ out # <<"0">>

\* not err and out.strip() != '0'
ProbeSucceeded(err, out) == ~err /\ Strip(out) # <<"0">>

\* a plausible slip: the libraries put in front of LIBS
AppendLibsInFront(linked, libs) == libs \o linked

\* context.env.Append(LIBS=libs)
AppendLibs(linked, libs) == linked \o libs

\* the probe program: '#include' lines for stdio.h and the headers, and the
\* expression printed by main
ProbeSource(headers, expr) ==
    [includes |-> <<"stdio.h">> \o headers, expr |-> expr]

\* int(hashlib.md5(src).hexdigest(), 16): a number fixed by the text alone
MD5(src) == [md5_of |-> src]

LibNames == {"a", "b"}

RECURSIVE LibLists(_)
LibLists(n) ==
    IF n = 0 THEN {<<>>}
    ELSE LibLists(n - 1) \cup
         {<<l>> \o t : l \in LibNames, t \in LibLists(n - 1)}

\* the 'libs' argument: a bare name, or a list of one or more names
LibArg(bare, l) ==
    IF bare THEN [isList |-> FALSE, v |-> l[1]] ELSE [isList |-> TRUE, v |-> l]

\* the 'headers' argument: a bare name, or a list
HeaderArg(bare) ==
    IF bare THEN [isList |-> FALSE, v |-> "h"] ELSE [isList |-> TRUE, v |-> <<>>]

OutChars == {"0", "1", "-", "\n"}

RECURSIVE OutTexts(_)
OutTexts(n) ==
    IF n = 0 THEN {<<>>}
    ELSE OutTexts(n - 1) \cup
         {<<c>> \o t : c \in OutChars, t \in OutTexts(n - 1)}

\* what the probe program may print
ProbeOutputs == OutTexts(MaxOut)

\* LIBS before the first probe
InitialLibs == {<<>>, <<"m", "a">>}

InitProbe ==
    /\ fn = "CheckLibWithHeaderExpr"
    /\ pc = "idle"
    /\ result = None
    /\ raised = FALSE
    /\ spawned = 0
    /\ output = <<>>
    /\ full_text = <<>>
    /\ dump_text = <<>>
    /\ LIBS \in InitialLibs
    /\ CPPPATH = <<>>
    /\ call = <<>>
    /\ run = <<>>
    /\ ac_build_counter = 0
    /\ files = {}
    /\ exit_status = -1
    /\ calls = 0
    /\ unique = TRUE

\* entry of CheckLibWithHeaderExpr, up to context.Message; reached directly
\* or through CheckLibWithHeaderUniq, which passes the expression '1'
ProbeCall ==
    /\ fn \in {"CheckLibWithHeaderExpr", "CheckLibWithHeaderUniq"}
    /\ pc \in {"idle", "done"}
    /\ calls < MaxProbes
    /\ \E uniq \in BOOLEAN, l \in LibLists(MaxLibs) \ {<<>>} :
          LET libs == AsList(LibArg(Len(l) = 1 /\ l[1] = "a", l))
              ha == HeaderArg(~uniq)
              expr == IF uniq THEN "1" ELSE "e"
          IN /\ fn' = IF uniq THEN "CheckLibWithHeaderUniq"
                      ELSE "CheckLibWithHeaderExpr"
             /\ call' = [request |-> libs,
                         name |-> libs[1],
                         libs |-> FilterLibs(libs, LIBS),
                         src |-> ProbeSource(AsList(ha), expr)]
             /\ unique' = (unique /\ \A i, j \in 1..Len(libs) :
                                         libs[i] = libs[j] => i = j)
    /\ pc' = "run"
    /\ calls' = calls + 1
    /\ run' = <<>>
    /\ result' = None
    /\ spawned' = 0
    /\ UNCHANGED <<raised, compilerVars, LIBS, CPPPATH,
                   ac_build_counter, files, exit_status>>

\* the counter patch and context.RunProg(src, suffix)
ProbeRun ==
    /\ fn \in {"CheckLibWithHeaderExpr", "CheckLibWithHeaderUniq"}
    /\ pc = "run"
    /\ ac_build_counter' = MD5(call.src)
    /\ \E err \in BOOLEAN, out \in ProbeOutputs :
          run' = [err |-> err, out |-> out]
    /\ spawned' = spawned + 1
    /\ pc' = "result"
    /\ UNCHANGED <<fn, result, raised, compilerVars, LIBS, CPPPATH,
                   call, files, exit_status, calls, unique>>

\* the verdict: Result('yes'), Append and True, or Result('no') and False
ProbeResult ==
    /\ fn \in {"CheckLibWithHeaderExpr", "CheckLibWithHeaderUniq"}
    /\ pc = "result"
    /\ IF ProbeSucceeded(run.err, run.out)
       THEN /\ LIBS' = AppendLibs(LIBS, call.libs)
            /\ result' = Some(TRUE)
       ELSE /\ LIBS' = LIBS
            /\ result' = Some(FALSE)
    /\ pc' = "done"
    /\ UNCHANGED <<fn, raised, spawned, compilerVars, CPPPATH, call, run,
                   ac_build_counter, files, exit_status, calls, unique>>

NextProbe == ProbeCall \/ ProbeRun \/ ProbeResult

SpecProbe == InitProbe /\ [][NextProbe]_vars

\* ------------------------------------------------------------ ThirdParty

\* os.path.join('3rdparty', host, 'build', name, 'commit')
CommitPath(host, name) == <<"3rdparty", host, "build", name, "commit">>

\* not os.path.exists(<marker>)
NeedsFetch(host, name, fs) == CommitPath(host, name) \notin fs

\* '#3rdparty/%s/build/%s/include/%s' % (host, name, s)
IncludePath(host, name, s) == <<"#3rdparty", host, "build", name, "include", s>>

\* if not includes: includes = ['']
IncludesOrDefault(includes) == IF Len(includes) = 0 THEN <<"">> ELSE includes

\* for s in includes: env.Prepend(CPPPATH=[...]): each path goes in front
RECURSIVE PrependIncludes(_, _, _, _)
PrependIncludes(path, host, name, includes) ==
    IF Len(includes) = 0 THEN path
    ELSE PrependIncludes(<<IncludePath(host, name, includes[1])>> \o path,
                         host, name, Tail(includes))

\* for lib in ...: env.Prepend(LIBS=[env.File(lib)])
RECURSIVE PrependLibs(_, _)
PrependLibs(linked, found) ==
    IF Len(found) = 0 THEN linked
    ELSE PrependLibs(<<found[1]>> \o linked, Tail(found))

\* a plausible slip: Die that reports and goes on
DieGoesOn == [exit_status |-> -1, pc |-> "prepend"]

\* Die: the message, then SCons.Script.Exit(1)
Die == [exit_status |-> 1, pc |-> "exit"]

Hosts == {"host"}

Names == {"n1", "n2"}

IncludeArgs == {<<>>, <<"i">>, <<"i", "j">>}

\* lib* entries RecursiveGlob finds under 3rdparty/<host>/build/<name>/lib
GlobResults(name) == {<<>>, <<<<"lib", name>>>>}

InitThirdParty ==
    /\ fn = "ThirdParty"
    /\ pc = "idle"
    /\ result = None
    /\ raised = FALSE
    /\ spawned = 0
    /\ output = <<>>
    /\ full_text = <<>>
    /\ dump_text = <<>>
    /\ LIBS = <<>>
    /\ CPPPATH = <<>>
    /\ call = <<>>
    /\ run = <<>>
    /\ ac_build_counter = 0
    /\ files \in SUBSET {CommitPath(h, n) : h \in Hosts, n \in Names}
    /\ exit_status = -1
    /\ calls = 0
    /\ unique = TRUE

\* entry of ThirdParty and the test of the marker file
ThirdPartyCall ==
    /\ fn = "ThirdParty"
    /\ pc \in {"idle", "done"}
    /\ calls < MaxFetches
    /\ \E h \in Hosts, n \in Names, inc \in IncludeArgs :
          /\ call' = [host |-> h, name |-> n, includes |-> inc]
          /\ pc' = IF NeedsFetch(h, n, files) THEN "execute" ELSE "prepend"
    /\ calls' = calls + 1
    /\ run' = <<>>
    /\ spawned' = 0
    /\ UNCHANGED <<fn, result, raised, compilerVars, LIBS, CPPPATH,
                   ac_build_counter, files, exit_status, unique>>

\* env.Execute of scripts/3rdparty.py: a non-zero status is fatal. The
\* script writes the marker when it succeeds.
ThirdPartyExecute ==
    /\ fn = "ThirdParty"
    /\ pc = "execute"
    /\ spawned' = spawned + 1
    /\ \E status \in {0, 1, 2} :
          /\ run' = [status |-> status]
          /\ IF status # 0
             THEN /\ exit_status' = Die.exit_status
                  /\ pc' = Die.pc
                  /\ files' = files
             ELSE /\ exit_status' = exit_status
                  /\ pc' = "prepend"
                  /\ files' = files \cup {CommitPath(call.host, call.name)}
    /\ UNCHANGED <<fn, result, raised, compilerVars, LIBS, CPPPATH, call,
                   ac_build_counter, calls, unique>>

\* the two Prepend loops
ThirdPartyPrepend ==
    /\ fn = "ThirdParty"
    /\ pc = "prepend"
    /\ CPPPATH' = PrependIncludes(CPPPATH, call.host, call.name,
                                  IncludesOrDefault(call.includes))
    /\ \E found \in GlobResults(call.name) : LIBS' = PrependLibs(LIBS, found)
    /\ pc' = "done"
    /\ UNCHANGED <<fn, result, raised, spawned, compilerVars, call, run,
                   ac_build_counter, files, exit_status, calls, unique>>

NextThirdParty == ThirdPartyCall \/ ThirdPartyExecute \/ ThirdPartyPrepend

SpecThirdParty == InitThirdParty /\ [][NextThirdParty]_vars

\* ------------------------------------------------------------ properties

\* index of the first output line that re.match accepts, 0 if there is none
FirstTargetLine ==
    IF \E k \in 1..Len(output) : TargetMatch(output[k]).found
    THEN CHOOSE k \in 1..Len(output) :
            /\ TargetMatch(output[k]).found
            /\ \A j \in 1..(k - 1) : ~TargetMatch(output[j]).found
    ELSE 0

\* the triple captured from that line
CapturedTriple == TargetMatch(output[FirstTargetLine]).val

TargetReturned == fn = "CompilerTarget" /\ pc = "done" /\ spawned = 1

\* C1: CompilerTarget returns the triple of the first line matching
\* 'Target:', optional blanks, a non-blank token, rewritten as follows: three
\* components [arch, os, abi] become arch-pc-os-abi; four components with
\* second component 'unknown' get 'pc' in its place; any other triple is
\* returned unchanged. A 3- or 4-component triple yields 4 components.
C1_TargetNormalized ==
    TargetReturned =>
        IF FirstTargetLine = 0 THEN result = None
        ELSE LET t == CapturedTriple
                 p == Split(t, "-")
                 r == Split(result.val, "-")
             IN /\ result.found
                /\ Len(p) = 3 => r = <<p[1], pcVendor, p[2], p[3]>>
                /\ (Len(p) = 4 /\ p[2] = unknown)
                       => r = <<p[1], pcVendor, p[3], p[4]>>
                /\ ~(Len(p) = 3 \/ (Len(p) = 4 /\ p[2] = unknown))
                       => result.val = t
                /\ Len(p) \in {3, 4} => Len(r) = 4

\* a 3-component triple on a later line than a line that only looks like one
C1_Witness ==
    /\ TargetReturned
    /\ FirstTargetLine > 1
    /\ Len(Split(CapturedTriple, "-")) = 3
    /\ Len(Split(result.val, "-")) = 4

\* C8: on a 4-component triple whose vendor is not 'unknown' the result is
\* the input, and normalizing the result again leaves it as it is.
C8_NormalizeIdempotent ==
    (TargetReturned /\ FirstTargetLine # 0) =>
        LET t == CapturedTriple
            p == Split(t, "-")
        IN (Len(p) = 4 /\ p[2] # unknown) =>
              /\ result.val = t
              /\ NormalizeTriple(result.val) = result.val

C8_Witness ==
    /\ TargetReturned
    /\ FirstTargetLine # 0
    /\ Len(Split(CapturedTriple, "-")) = 4
    /\ Split(CapturedTriple, "-")[2] = <<"x">>
    /\ result.found

\* the version that follows a marker ending just before s[e]: the dotted
\* triple there, else the dotted pair there
AttachedAt(s, e) ==
    IF ShapeAt(s, e, 3) > 0 THEN SubSeq(s, e, e + ShapeAt(s, e, 3) - 1)
    ELSE SubSeq(s, e, e + ShapeAt(s, e, 2) - 1)

\* the versions attached to 'LLVM version' / 'clang version' markers of s
AttachedVersions(s) ==
    {AttachedAt(s, MarkerEnd(s, i)) :
        i \in {j \in 1..Len(s) :
                 /\ MarkerEnd(s, j) > 0
                 /\ ShapeAt(s, MarkerEnd(s, j), 3) + ShapeAt(s, MarkerEnd(s, j), 2) > 0}}

VersionReturned == fn = "CompilerVersion" /\ pc = "done"

\* C2: when the --version text holds an LLVM/clang marker followed by a
\* dotted triple or pair, the result is the version attached to such a
\* marker, whatever other numbers the text holds, and -dumpversion is
\* never run.
C2_MarkerWins ==
    (VersionReturned /\ spawned >= 1 /\ AttachedVersions(full_text) # {}) =>
        /\ result.found
        /\ result.val \in {VersionTuple(v) : v \in AttachedVersions(full_text)}
        /\ spawned = 1
        /\ dump_text = <<>>

\* a marker version returned although another dotted triple comes first
C2_Witness ==
    /\ VersionReturned
    /\ AttachedVersions(full_text) # {}
    /\ Search(full_text, 3).found
    /\ result.found
    /\ VersionTuple(Search(full_text, 3).val) # result.val

\* some pattern matches the text
HasVersion(s) == Search(s, 3).found \/ Search(s, 2).found

\* the match a text supplies: the triple before the pair
BestVersion(s) ==
    IF Search(s, 3).found THEN Search(s, 3).val ELSE Search(s, 2).val

\* C3: without a marker the result comes from the first of dump-version
\* text, --version text without parenthesized parts, full --version text
\* that matches either pattern, the triple before the pair within a text.
C3_TextOrder ==
    (VersionReturned /\ spawned = 2) =>
        LET d == dump_text
            t == StripParens(full_text)
            f == full_text
        IN result =
             IF HasVersion(d) THEN Some(VersionTuple(BestVersion(d)))
             ELSE IF HasVersion(t) THEN Some(VersionTuple(BestVersion(t)))
             ELSE IF HasVersion(f) THEN Some(VersionTuple(BestVersion(f)))
             ELSE None

\* a dotted pair of the dump text wins over a triple of the --version text
C3_Witness ==
    /\ VersionReturned /\ spawned = 2
    /\ Search(dump_text, 2).found /\ ~Search(dump_text, 3).found
    /\ Search(StripParens(full_text), 3).found
    /\ result = Some(VersionTuple(Search(dump_text, 2).val))

\* a Popen of the finished call raised
SpawnFailed ==
    /\ pc = "done"
    /\ \/ spawned = 0
       \/ /\ fn = "CompilerVersion"
          /\ spawned = 1
          /\ ~MarkerVersion(full_text).found

\* C4: no exception reaches the caller of CompilerVersion or
\* CompilerTarget, and a call in which a subprocess failed to start
\* returns None.
C4_SpawnFailureIsNone ==
    /\ ~raised
    /\ SpawnFailed => result = None

\* -dumpversion failed to start after --version printed a generic version
C4_Witness ==
    /\ VersionReturned /\ SpawnFailed /\ spawned = 1
    /\ Search(full_text, 3).found
    /\ result = None /\ ~raised

\* C9 as stated: a call starts at most one subprocess.
C9_AtMostOneProcess == spawned <= 1

\* C9 amended: CompilerTarget starts at most one subprocess; CompilerVersion
\* starts at most two, -dumpversion only after the --version output was
\* read and held no LLVM/clang version.
C9_SpawnBound ==
    /\ fn = "CompilerTarget" => spawned <= 1
    /\ fn = "CompilerVersion" =>
          /\ spawned <= 2
          /\ spawned = 2 => AttachedVersions(full_text) = {}

C9_Witness == VersionReturned /\ spawned = 2 /\ result.found

ProbeReturned ==
    /\ fn \in {"CheckLibWithHeaderExpr", "CheckLibWithHeaderUniq"}
    /\ pc = "done"

\* C5: the probe returns true exactly when RunProg reported no error and
\* the printed text, stripped of surrounding whitespace, is not '0'.
C5_ProbeVerdict ==
    ProbeReturned =>
        /\ result.found
        /\ result.val = (~run.err /\ Strip(run.out) # <<"0">>)

\* a negative number printed: success
C5_Witness ==
    /\ ProbeReturned
    /\ ~run.err /\ run.out = <<"-", "1">>
    /\ result.val = TRUE

\* no element occurs twice
NoDuplicates(q) == \A i, j \in 1..Len(q) : q[i] = q[j] => i = j

\* p is a prefix of q
IsPrefix(p, q) == Len(p) <= Len(q) /\ SubSeq(q, 1, Len(p)) = p

\* the requested libraries that are not in LIBS, in request order
NotYetLinked ==
    LET absent(l) == l \notin {LIBS[i] : i \in 1..Len(LIBS)}
    IN SelectSeq(call.request, absent)

\* C6: LIBS changes only when a probe succeeds, and then by appending the
\* requested libraries that were not in it, in request order; a failed
\* probe leaves it alone; the program is run in every call, also when
\* nothing is left to add.
C6_LibsFrame ==
    [][/\ (pc = "result" /\ result'.val) => LIBS' = LIBS \o NotYetLinked
       /\ (pc = "result" /\ ~result'.val) => LIBS' = LIBS
       /\ pc # "result" => LIBS' = LIBS
       /\ pc' = "done" => spawned' = 1]_vars

\* a request of one new and one linked library: only the new one is added
C6_Witness ==
    /\ ProbeReturned
    /\ result.val = TRUE
    /\ call.request = <<"b", "a">>
    /\ call.libs = <<"b">>
    /\ LIBS = <<"m", "a", "b">>
    /\ spawned = 1

\* C10: while every call's library list is free of duplicates LIBS stays
\* free of duplicates, and a probe never removes or moves an entry.
C10_NoDuplicates ==
    /\ [](unique => NoDuplicates(LIBS))
    /\ [][IsPrefix(LIBS, LIBS')]_vars

\* two successful probes, the second asking again for the first's library
C10_Witness ==
    /\ ProbeReturned
    /\ unique /\ calls = 2
    /\ call.request = <<"b", "a">>
    /\ call.libs = <<>>
    /\ LIBS = <<"m", "a", "b">>
    /\ result.val = TRUE

\* the include paths of the current call, last one first
PrependedPaths ==
    LET inc == IncludesOrDefault(call.includes)
    IN [k \in 1..Len(inc) |->
           IncludePath(call.host, call.name, inc[Len(inc) + 1 - k])]

\* p is a suffix of q
IsSuffix(p, q) ==
    Len(p) <= Len(q) /\ SubSeq(q, Len(q) - Len(p) + 1, Len(q)) = p

\* C7: the script is run exactly when the marker file is missing at the
\* call; a non-zero status ends the configuration with status 1 and
\* nothing prepended; with the marker present or a zero status the include
\* paths and libraries are prepended.
C7_FetchOrDie ==
    [][/\ pc # "exit"
       /\ pc \in {"idle", "done"} =>
             (pc' = "execute") =
                 (CommitPath(call'.host, call'.name) \notin files)
       /\ pc \in {"idle", "done"} => pc' \in {"execute", "prepend"}
       /\ spawned' # 0 =>
             (pc = "execute" /\ CommitPath(call.host, call.name) \notin files)
             \/ spawned' = spawned
       /\ pc = "execute" =>
             /\ spawned' = 1
             /\ IF run'.status # 0
                THEN /\ pc' = "exit" /\ exit_status' = 1
                     /\ CPPPATH' = CPPPATH /\ LIBS' = LIBS
                ELSE pc' = "prepend" /\ exit_status' = -1
       /\ pc = "prepend" =>
             /\ pc' = "done" /\ exit_status' = -1
             /\ CPPPATH' = PrependedPaths \o CPPPATH
             /\ IsSuffix(LIBS, LIBS')
       /\ pc # "prepend" => (CPPPATH' = CPPPATH /\ LIBS' = LIBS)]_vars

\* a second call whose script failed after a first call that prepended
C7_Witness ==
    /\ fn = "ThirdParty" /\ pc = "exit"
    /\ exit_status = 1
    /\ calls = 2
    /\ Len(CPPPATH) = 2
    /\ run.status = 2

====
